---- MODULE Spec2Model ----
(***************************************************************************)
(* zelmedia: the filename normalizer (build_clean_name), its tag           *)
(* classifier (is_unwanted) and the bulk operations built on them.         *)
(*                                                                         *)
(* A filename is a sequence of one-character strings.  The functions of    *)
(* src/src/zelmedia/core/rename.py are operators over such sequences,      *)
(* computed character by character as the Python code and its regular      *)
(* expressions compute them.  pathlib's stem / suffix split is the one of  *)
(* the CPython releases before 3.14 (a name that ends in "." has no        *)
(* suffix).                                                                *)
(***************************************************************************)
EXTENDS Integers, Sequences, FiniteSets, TLC

VARIABLES
    original,   \* the filename handed to build_clean_name
    pc,         \* the position of the operation that is modelled
    r1,         \* locals and result of build_clean_name(original)
    r2,         \* locals and result of the second call of build_clean_name
    token,      \* the token handed to is_unwanted
    verdict,    \* the value is_unwanted returned for token
    fs,         \* the files on disk: records [dir, name, id]
    files,      \* move_files_to_folder: the sources, in encounter order
    idx,        \* move_files_to_folder: index of the source handled next
    movers,     \* two concurrent movers: [src, at, free] each
    atomic,     \* whether a mover's check and move are one step
    folder,     \* clean_movie_names: the folder's files, records [name, id]
    snapshot,   \* clean_movie_names: list(folder.iterdir()) of the current run
    pos,        \* clean_movie_names: index of the snapshot entry handled next
    run,        \* clean_movie_names: number of the current run
    log,        \* clean_movie_names: what was decided for each entry so far
    variant,    \* a second filename, handed to build_clean_name beside original
    base_name,  \* build_series_name / clean_series_names: the series name given
    file_season, \* build_series_name: the season of the file's folder
    ser,        \* locals and result of build_series_name(original, base_name)
    tree,       \* clean_series_names: the files under root, records [dir, name, id]
    dry_run,    \* clean_series_names: the dry_run argument
    todo,       \* clean_series_names: files_to_process not yet handled
    printed,    \* clean_series_names: the lines printed so far
    paths_json, \* the saved-path store file: whether it exists, and its text
    saves       \* the mappings handed to save_paths so far

normVars == <<original, r1, r2, token, verdict>>
moveVars == <<fs, files, idx, movers, atomic>>
folderVars == <<folder, snapshot, pos, run, log>>
pairVars == <<variant>>
seriesVars == <<base_name, file_season, ser, tree, dry_run, todo, printed>>
storeVars == <<paths_json, saves>>
otherVars == <<pairVars, seriesVars, storeVars>>
vars == <<original, pc, r1, r2, token, verdict,
          fs, files, idx, movers, atomic,
          folder, snapshot, pos, run, log,
          variant, base_name, file_season, ser, tree, dry_run, todo, printed,
          paths_json, saves>>

\* Python's None where the code holds a season or an episode number
NoSeason == -1

\* the variables of the series operations while another operation is modelled
NoSeries ==
    /\ base_name = <<>>
    /\ file_season = NoSeason
    /\ ser = <<>>
    /\ tree = {}
    /\ dry_run = FALSE
    /\ todo = <<>>
    /\ printed = <<>>

\* the variables of the saved-path store while another operation is modelled
NoStore ==
    /\ paths_json = [exists |-> FALSE, text |-> <<>>]
    /\ saves = <<>>

\* the variables of the later operations while an earlier one is modelled
NoOther ==
    /\ variant = <<>>
    /\ NoSeries
    /\ NoStore

\* the variables of move_files_to_folder while another operation is modelled
NoMove ==
    /\ fs = {}
    /\ files = <<>>
    /\ idx = 0
    /\ movers = <<>>
    /\ atomic = FALSE

\* the variables of clean_movie_names while another operation is modelled
NoFolder ==
    /\ folder = {}
    /\ snapshot = <<>>
    /\ pos = 0
    /\ run = 0
    /\ log = <<>>

(***************************************************************************)
(* Bounds of the model.                                                    *)
(***************************************************************************)
MaxPieces == 5
MaxTagPieces == 3

\* Python's None (for `year`) and the value of a local that was never assigned.
None == <<>>

(***************************************************************************)
(* Characters.                                                             *)
(***************************************************************************)
UPPER == <<"A","B","C","D","E","F","G","H","I","J","K","L","M","N","O","P","Q","R","S","T","U","V","W","X","Y","Z">>
LOWER == <<"a","b","c","d","e","f","g","h","i","j","k","l","m","n","o","p","q","r","s","t","u","v","w","x","y","z">>

IsDigit(c) == c \in {"0","1","2","3","4","5","6","7","8","9"}

\* the character class of a tokenizer that does not split on "-"
IsDelim_NoHyphen(c) == c \in {".", "_", " "}

\* the character class [.\-_ ] of the tokenizer
IsDelim(c) == c \in {".", "-", "_", " "}

\* the characters of "[]{}()"
IsBracket(c) == c \in {"[", "]", "{", "}", "(", ")"}

LowerChar(c) ==
    IF \E i \in DOMAIN UPPER : UPPER[i] = c
    THEN LOWER[CHOOSE i \in DOMAIN UPPER : UPPER[i] = c]
    ELSE c

\* str.lower()
Lower(s) == [i \in DOMAIN s |-> LowerChar(s[i])]

\* s[i:j] of Python with 1-based inclusive bounds; empty when j < i
Slice(s, i, j) == IF j < i THEN <<>> ELSE SubSeq(s, i, j)

\* `sub in s`
Contains(s, sub) ==
    \E i \in 1..(Len(s) - Len(sub) + 1) : Slice(s, i, i + Len(sub) - 1) = sub

(***************************************************************************)
(* constants.py                                                            *)
(***************************************************************************)
UNWANTED_WORDS == {
    <<"1","0","8","0","p">>, <<"7","2","0","p">>,
    <<"2","1","6","0","p">>, <<"4","k">>,
    <<"u","h","d">>, <<"b","l","u","r","a","y">>,
    <<"w","e","b","r","i","p">>, <<"b","r","r","i","p">>,
    <<"h","d","r","i","p">>, <<"d","v","d","r","i","p">>,
    <<"x","2","6","4">>, <<"x","2","6","5">>,
    <<"h","2","6","4">>, <<"h","2","6","5">>,
    <<"h","e","v","c">>, <<"a","a","c">>,
    <<"a","a","c","5">>, <<"d","d","p","5">>,
    <<"d","d","p","5","_","1">>, <<"d","t","s">>,
    <<"a","t","m","o","s">>, <<"y","i","f","y">>,
    <<"y","t","s">>, <<"r","e","p","a","c","k">>,
    <<"p","r","o","p","e","r">>, <<"s","a","m","p","l","e">>,
    <<"t","r","a","i","l","e","r">>, <<"B","O","K","U","T","O","X">> }

UNWANTED_EQUAL == { Lower(w) : w \in UNWANTED_WORDS }

\* (19|20)\d{2} at s[i..i+3]
YearAt(s, i) ==
    /\ i >= 1
    /\ i + 3 <= Len(s)
    /\ \/ s[i] = "1" /\ s[i+1] = "9"
       \/ s[i] = "2" /\ s[i+1] = "0"
    /\ IsDigit(s[i+2])
    /\ IsDigit(s[i+3])

\* YEAR_RE.fullmatch(tok), YEAR_RE = ^(19|20)\d{2}$
YEAR_RE_fullmatch(tok) == Len(tok) = 4 /\ YearAt(tok, 1)

\* \((19|20)\d{2}\) at s[i..i+5]
ParenYearAt(s, i) ==
    /\ i >= 1
    /\ i + 5 <= Len(s)
    /\ s[i] = "("
    /\ YearAt(s, i + 1)
    /\ s[i+5] = ")"

\* PAREN_YEAR_SEARCH.search(stem): start of the leftmost match, 0 for no match
PAREN_YEAR_SEARCH_search(s) ==
    IF \E i \in 1..Len(s) : ParenYearAt(s, i)
    THEN CHOOSE i \in 1..Len(s) :
            ParenYearAt(s, i) /\ \A j \in 1..(i-1) : ~ParenYearAt(s, j)
    ELSE 0

\* READY_PATTERN.search(stem), READY_PATTERN = _\((19|20)\d{2}\)$
READY_PATTERN_search(s) ==
    /\ Len(s) >= 7
    /\ s[Len(s) - 6] = "_"
    /\ ParenYearAt(s, Len(s) - 5)

(***************************************************************************)
(* pathlib: Path.suffix, Path.stem                                         *)
(***************************************************************************)
\* name.rfind("."), 1-based; 0 when the name holds no "."
LastDot(n) ==
    IF \E i \in 1..Len(n) : n[i] = "."
    THEN CHOOSE i \in 1..Len(n) : n[i] = "." /\ \A j \in (i+1)..Len(n) : n[j] # "."
    ELSE 0

\* a plausible slip: every final "." taken to start a suffix
HasSuffix_AnyDot(n) == LastDot(n) > 0

\* the final "." starts a suffix unless it is the first or the last character
HasSuffix(n) == LastDot(n) > 1 /\ LastDot(n) < Len(n)

\* a plausible slip: the extension taken from the first "." instead of the last
suffix_FromFirstDot(n) ==
    IF HasSuffix(n)
    THEN Slice(n, CHOOSE i \in 1..Len(n) : n[i] = "." /\ \A j \in 1..(i-1) : n[j] # ".",
               Len(n))
    ELSE <<>>

\* a plausible slip: original.suffix.lower() appended
suffix_Lowered(n) ==
    IF HasSuffix(n) THEN Lower(Slice(n, LastDot(n), Len(n))) ELSE <<>>

\* original.suffix
suffix(n) == IF HasSuffix(n) THEN Slice(n, LastDot(n), Len(n)) ELSE <<>>

\* original.stem
stem(n) == IF HasSuffix(n) THEN Slice(n, 1, LastDot(n) - 1) ELSE n

(***************************************************************************)
(* rename.py: small helpers                                                *)
(***************************************************************************)
\* a plausible slip: substring matching, as in the earlier versions
is_unwanted_Substring(tok) ==
    \E w \in UNWANTED_EQUAL : Contains(Lower(tok), w)

\* token.lower() in _UNWANTED_EQUAL
is_unwanted(tok) == Lower(tok) \in UNWANTED_EQUAL

RECURSIVE collapse_underscores(_)
\* re.sub(r"_{2,}", "_", text)
collapse_underscores(text) ==
    IF Len(text) < 2 THEN text
    ELSE IF text[1] = "_" /\ text[2] = "_"
         THEN collapse_underscores(Tail(text))
         ELSE <<text[1]>> \o collapse_underscores(Tail(text))

RECURSIVE lstrip_underscore(_)
lstrip_underscore(s) ==
    IF s # <<>> /\ s[1] = "_" THEN lstrip_underscore(Tail(s)) ELSE s

RECURSIVE rstrip_underscore(_)
rstrip_underscore(s) ==
    IF s # <<>> /\ s[Len(s)] = "_"
    THEN rstrip_underscore(Slice(s, 1, Len(s) - 1))
    ELSE s

\* str.strip("_")
strip_underscore(s) == rstrip_underscore(lstrip_underscore(s))

RECURSIVE SplitFrom(_, _, _)
\* the tokens of s[i..], cur being the token under construction
SplitFrom(s, i, cur) ==
    IF i > Len(s) THEN <<cur>>
    ELSE IF IsDelim(s[i])
         THEN IF i > 1 /\ IsDelim(s[i-1])
              THEN SplitFrom(s, i + 1, cur)
              ELSE <<cur>> \o SplitFrom(s, i + 1, <<>>)
         ELSE SplitFrom(s, i + 1, Append(cur, s[i]))

\* re.split(r"[.\-_ ]+", stem): empty first / last tokens included
re_split(s) == SplitFrom(s, 1, <<>>)

\* str.isdigit()
isdigit(tok) == tok # <<>> /\ \A i \in 1..Len(tok) : IsDigit(tok[i])

\* a plausible slip: only the square brackets tested
HasBracket_SquareOnly(tok) == \E i \in 1..Len(tok) : tok[i] \in {"[", "]"}

\* any(ch in tok for ch in "[]{}()")
HasBracket(tok) == \E i \in 1..Len(tok) : IsBracket(tok[i])

(***************************************************************************)
(* rename.py: build_clean_name                                             *)
(***************************************************************************)
\* a plausible slip: the short-circuit taken for every ready-shaped stem
ReadyShortCircuit_IgnoreCounter(s) == READY_PATTERN_search(s)

\* a plausible slip: the short-circuit never taken
ReadyShortCircuit_Never(s) == FALSE

\* line 47: READY_PATTERN.search(stem) and "_1_" not in stem
ReadyShortCircuit(s) ==
    READY_PATTERN_search(s) /\ ~Contains(s, <<"_", "1", "_">>)

\* a plausible slip: the short-number rule keeps the token only while no year is known
TokenBranch_SequelOnlyBeforeYear(tok, year) ==
    IF tok = <<>> THEN "empty"
    ELSE IF year = None /\ YEAR_RE_fullmatch(tok) THEN "year"
    ELSE IF is_unwanted(tok) \/ HasBracket(tok) THEN "junk"
    ELSE IF tok = <<"1">> THEN "counter"
    ELSE IF isdigit(tok) /\ Len(tok) < 4
         THEN (IF year = None THEN "sequel" ELSE "junk")
    ELSE "keep"

\* a plausible slip: the test for the duplicate counter "1" left out
TokenBranch_NoCounterTest(tok, year) ==
    IF tok = <<>> THEN "empty"
    ELSE IF year = None /\ YEAR_RE_fullmatch(tok) THEN "year"
    ELSE IF is_unwanted(tok) \/ HasBracket(tok) THEN "junk"
    ELSE IF isdigit(tok) /\ Len(tok) < 4 /\ year = None THEN "sequel"
    ELSE "keep"

\* a plausible slip: the year test without "year is None", a later year wins
TokenBranch_YearOverrides(tok, year) ==
    IF tok = <<>> THEN "empty"
    ELSE IF YEAR_RE_fullmatch(tok) THEN "year"
    ELSE IF is_unwanted(tok) \/ HasBracket(tok) THEN "junk"
    ELSE IF tok = <<"1">> THEN "counter"
    ELSE IF isdigit(tok) /\ Len(tok) < 4 /\ year = None THEN "sequel"
    ELSE "keep"

\* a plausible slip: a year-like token met after the year is known is dropped
TokenBranch_LaterYearDropped(tok, year) ==
    IF tok = <<>> THEN "empty"
    ELSE IF YEAR_RE_fullmatch(tok) THEN (IF year = None THEN "year" ELSE "junk")
    ELSE IF is_unwanted(tok) \/ HasBracket(tok) THEN "junk"
    ELSE IF tok = <<"1">> THEN "counter"
    ELSE IF isdigit(tok) /\ Len(tok) < 4 /\ year = None THEN "sequel"
    ELSE "keep"

\* a plausible slip: the short-number test made before the test for "1"
TokenBranch_ShortBeforeCounter(tok, year) ==
    IF tok = <<>> THEN "empty"
    ELSE IF year = None /\ YEAR_RE_fullmatch(tok) THEN "year"
    ELSE IF is_unwanted(tok) \/ HasBracket(tok) THEN "junk"
    ELSE IF isdigit(tok) /\ Len(tok) < 4 /\ year = None THEN "sequel"
    ELSE IF tok = <<"1">> THEN "counter"
    ELSE "keep"

\* lines 61-74: the branch the loop body takes for tok, first test first
TokenBranch(tok, year) ==
    IF tok = <<>> THEN "empty"
    ELSE IF year = None /\ YEAR_RE_fullmatch(tok) THEN "year"
    ELSE IF is_unwanted(tok) \/ HasBracket(tok) THEN "junk"
    ELSE IF tok = <<"1">> THEN "counter"
    ELSE IF isdigit(tok) /\ Len(tok) < 4 /\ year = None THEN "sequel"
    ELSE "keep"

\* a plausible slip: the "continue" after "year = tok" left out
LoopStep_YearKeptInTitle(acc, tok) ==
    LET b == TokenBranch(tok, acc.year) IN
    IF b = "year" THEN [acc EXCEPT !.year = tok, !.title_parts = Append(@, tok)]
    ELSE IF b \in {"sequel", "keep"}
         THEN [acc EXCEPT !.title_parts = Append(@, tok)]
         ELSE acc

\* one pass of the loop body over tok; acc = [year, title_parts]
LoopStep(acc, tok) ==
    LET b == TokenBranch(tok, acc.year) IN
    IF b = "year" THEN [acc EXCEPT !.year = tok]
    ELSE IF b \in {"sequel", "keep"}
         THEN [acc EXCEPT !.title_parts = Append(@, tok)]
         ELSE acc

RECURSIVE TokenLoop(_, _, _)
\* lines 60-74: for tok in tokens, from tokens[i] on
TokenLoop(tokens, i, acc) ==
    IF i > Len(tokens) THEN acc
    ELSE TokenLoop(tokens, i + 1, LoopStep(acc, tokens[i]))

RECURSIVE JoinUnderscore(_)
\* "_".join(title_parts)
JoinUnderscore(parts) ==
    IF parts = <<>> THEN <<>>
    ELSE IF Len(parts) = 1 THEN parts[1]
    ELSE parts[1] \o <<"_">> \o JoinUnderscore(Tail(parts))

\* the lookahead (?=(_|\(|$)) at s[j]
CounterLookahead(s, j) == j > Len(s) \/ s[j] = "_" \/ s[j] = "("

RECURSIVE SubCounterFrom(_, _)
\* the scan of re.sub(r"(^|_)1(?=(_|\(|$))", r"\1", s) from s[i] on
SubCounterFrom(s, i) ==
    IF i > Len(s) THEN <<>>
    ELSE IF i = 1 /\ s[1] = "1" /\ CounterLookahead(s, 2)
         THEN SubCounterFrom(s, 2)
    ELSE IF s[i] = "_" /\ i + 1 <= Len(s) /\ s[i+1] = "1" /\ CounterLookahead(s, i + 2)
         THEN <<"_">> \o SubCounterFrom(s, i + 2)
    ELSE <<s[i]>> \o SubCounterFrom(s, i + 1)

\* line 87
re_sub_counter(s) == SubCounterFrom(s, 1)

\* a plausible slip: the year appended without the separating underscore
Reassemble_NoUnderscore(title_parts, year) ==
    LET title == collapse_underscores(JoinUnderscore(title_parts)) IN
    strip_underscore(collapse_underscores(
        IF year # None THEN title \o <<"(">> \o year \o <<")">> ELSE title))

\* a plausible slip: the suffix appended whether or not a year was found
Reassemble_AlwaysSuffix(title_parts, year) ==
    LET title == collapse_underscores(JoinUnderscore(title_parts)) IN
    strip_underscore(collapse_underscores(
        title \o <<"_", "(">> \o year \o <<")">>))

\* lines 81-83: new_stem before the duplicate-counter pass
Reassemble(title_parts, year) ==
    LET title == collapse_underscores(JoinUnderscore(title_parts)) IN
    strip_underscore(collapse_underscores(
        IF year # None THEN title \o <<"_", "(">> \o year \o <<")">> ELSE title))

RECURSIVE SubCounterNoLookaheadFrom(_, _)
\* the scan of re.sub(r"(^|_)1", r"\1", s): the pattern without its lookahead
SubCounterNoLookaheadFrom(s, i) ==
    IF i > Len(s) THEN <<>>
    ELSE IF i = 1 /\ s[1] = "1"
         THEN SubCounterNoLookaheadFrom(s, 2)
    ELSE IF s[i] = "_" /\ i + 1 <= Len(s) /\ s[i+1] = "1"
         THEN <<"_">> \o SubCounterNoLookaheadFrom(s, i + 2)
    ELSE <<s[i]>> \o SubCounterNoLookaheadFrom(s, i + 1)

\* a plausible slip: the lookahead of the duplicate-counter pattern left out
CounterPass_NoLookahead(new_stem) ==
    strip_underscore(collapse_underscores(SubCounterNoLookaheadFrom(new_stem, 1)))

\* lines 87-88: the duplicate-counter pass
CounterPass(new_stem) ==
    strip_underscore(collapse_underscores(re_sub_counter(new_stem)))

\* a plausible slip: the test `if not title_parts` left out, so that the
\* empty title falls through to the reassembly
Unsalvageable_FallThrough(orig, year, tokens) ==
    [ outcome |-> "renamed", year |-> year, tokens |-> tokens,
      title_parts |-> <<>>, pre_stem |-> Reassemble(<<>>, year),
      new_stem |-> CounterPass(Reassemble(<<>>, year)),
      result |-> CounterPass(Reassemble(<<>>, year)) \o suffix(orig) ]

\* lines 76-78: nothing left for the title, the original is returned
Unsalvageable(orig, year, tokens) ==
    [ outcome |-> "unsalvageable", year |-> year, tokens |-> tokens,
      title_parts |-> <<>>, pre_stem |-> None, new_stem |-> None,
      result |-> orig ]

\* build_clean_name(original): its locals and the name of the Path it returns
build_clean_name_locals(orig) ==
    LET st == stem(orig) IN
    IF ReadyShortCircuit(st)
    THEN [ outcome |-> "ready", year |-> None, tokens |-> <<>>,
           title_parts |-> <<>>, pre_stem |-> None, new_stem |-> None,
           result |-> orig ]
    ELSE
      LET m      == PAREN_YEAR_SEARCH_search(st)
          year0  == IF m > 0 THEN Slice(st, m + 1, m + 4) ELSE None
          st2    == IF m > 0
                    THEN Slice(st, 1, m - 1) \o Slice(st, m + 6, Len(st))
                    ELSE st
          tokens == re_split(st2)
          acc    == TokenLoop(tokens, 1, [year |-> year0, title_parts |-> <<>>])
      IN
      IF acc.title_parts = <<>>
      THEN Unsalvageable(orig, acc.year, tokens)
      ELSE
        LET pre      == Reassemble(acc.title_parts, acc.year)
            new_stem == CounterPass(pre)
        IN [ outcome |-> "renamed", year |-> acc.year, tokens |-> tokens,
             title_parts |-> acc.title_parts, pre_stem |-> pre,
             new_stem |-> new_stem,
             result |-> new_stem \o suffix(orig) ]

\* the name of build_clean_name(original)
build_clean_name(orig) == build_clean_name_locals(orig).result

\* the locals of a call that has not been made
NoRun ==
    [ outcome |-> "none", year |-> None, tokens |-> <<>>, title_parts |-> <<>>,
      pre_stem |-> None, new_stem |-> None, result |-> <<>> ]

\* the variables of build_clean_name and is_unwanted while another
\* operation is modelled
NoNorm ==
    /\ original = <<>>
    /\ r1 = NoRun
    /\ r2 = NoRun
    /\ token = <<>>
    /\ verdict = FALSE

(***************************************************************************)
(* The inputs: filenames put together from at most MaxPieces pieces.       *)
(***************************************************************************)
PIECES == {
    <<"A">>, <<"1">>, <<"2">>, <<"_">>, <<".">>,
    <<"1","9","9","9">>, <<"(","2","0","2","0",")">>,
    <<"(">>, <<"y","t","s">> }

RECURSIVE NamesOf(_)
NamesOf(k) ==
    IF k = 0 THEN { <<>> }
    ELSE LET prev == NamesOf(k - 1) IN
         prev \cup { n \o p : n \in prev, p \in PIECES }

(***************************************************************************)
(* Specification of the normalizer: a filename is drawn, build_clean_name  *)
(* is applied to it, and then applied once more to the name it returned.   *)
(***************************************************************************)
Init ==
    /\ original \in NamesOf(MaxPieces)
    /\ pc = "edit"
    /\ r1 = NoRun
    /\ r2 = NoRun
    /\ token = <<>>
    /\ verdict = FALSE
    /\ NoMove
    /\ NoFolder
    /\ NoOther

Clean ==
    /\ pc = "edit"
    /\ r1' = build_clean_name_locals(original)
    /\ pc' = "cleaned"
    /\ UNCHANGED <<original, r2, token, verdict>>
    /\ UNCHANGED <<moveVars, folderVars>>
    /\ UNCHANGED otherVars

CleanAgain ==
    /\ pc = "cleaned"
    /\ r2' = build_clean_name_locals(r1.result)
    /\ pc' = "recleaned"
    /\ UNCHANGED <<original, r1, token, verdict>>
    /\ UNCHANGED <<moveVars, folderVars>>
    /\ UNCHANGED otherVars

Next == Clean \/ CleanAgain

Spec == Init /\ [][Next]_vars

(***************************************************************************)
(* Specification of the tag classifier: a token is drawn and is_unwanted   *)
(* is applied to it.                                                       *)
(***************************************************************************)
TAG_PIECES == {
    <<"y">>, <<"t">>, <<"s">>, <<"Y">>, <<"T">>, <<"S">>,
    <<"y","t","s">>, <<"4">>, <<"k">>, <<"K">>, <<"x">>,
    <<"B","O","K","U">>, <<"b","o","k","u">>, <<"T","O","X">>, <<"t","o","x">> }

RECURSIVE TagTokensOf(_)
TagTokensOf(k) ==
    IF k = 0 THEN { <<>> }
    ELSE LET prev == TagTokensOf(k - 1) IN
         prev \cup { n \o p : n \in prev, p \in TAG_PIECES }

InitTag ==
    /\ token \in TagTokensOf(MaxTagPieces)
    /\ pc = "tag"
    /\ verdict = FALSE
    /\ original = <<>>
    /\ r1 = NoRun
    /\ r2 = NoRun
    /\ NoMove
    /\ NoFolder
    /\ NoOther

ClassifyTag ==
    /\ pc = "tag"
    /\ verdict' = is_unwanted(token)
    /\ pc' = "tagged"
    /\ UNCHANGED <<original, r1, r2, token>>
    /\ UNCHANGED <<moveVars, folderVars>>
    /\ UNCHANGED otherVars

NextTag == ClassifyTag

SpecTag == InitTag /\ [][NextTag]_vars

(***************************************************************************)
(* Specification of the normalizer over names rich in years: two embedded  *)
(* years and two bare ones may stand in one name, in any order.            *)
(***************************************************************************)
YEAR_PIECES == {
    <<"A">>, <<"_">>, <<".">>, <<"y","t","s">>,
    <<"1","9","9","9">>, <<"2","0","2","1">>,
    <<"(","1","9","9","9",")">>, <<"(","2","0","2","0",")">> }

RECURSIVE YearNamesOf(_)
YearNamesOf(k) ==
    IF k = 0 THEN { <<>> }
    ELSE LET prev == YearNamesOf(k - 1) IN
         prev \cup { n \o p : n \in prev, p \in YEAR_PIECES }

InitYears ==
    /\ original \in YearNamesOf(MaxPieces)
    /\ pc = "edit"
    /\ r1 = NoRun
    /\ r2 = NoRun
    /\ token = <<>>
    /\ verdict = FALSE
    /\ NoMove
    /\ NoFolder
    /\ NoOther

SpecYears == InitYears /\ [][Next]_vars

(***************************************************************************)
(* Specification of the normalizer over names rich in brackets: each of    *)
(* the six bracket characters may stand anywhere in a name.                *)
(***************************************************************************)
BRACKET_PIECES == {
    <<"A">>, <<"_">>, <<"[">>, <<"]">>, <<"{">>, <<"}">>,
    <<"(">>, <<")">>, <<"(","2","0","2","0",")">> }

RECURSIVE BracketNamesOf(_)
BracketNamesOf(k) ==
    IF k = 0 THEN { <<>> }
    ELSE LET prev == BracketNamesOf(k - 1) IN
         prev \cup { n \o p : n \in prev, p \in BRACKET_PIECES }

InitBrackets ==
    /\ original \in BracketNamesOf(MaxPieces)
    /\ pc = "edit"
    /\ r1 = NoRun
    /\ r2 = NoRun
    /\ token = <<>>
    /\ verdict = FALSE
    /\ NoMove
    /\ NoFolder
    /\ NoOther

SpecBrackets == InitBrackets /\ [][Next]_vars

(***************************************************************************)
(* Vocabulary of the properties.                                           *)
(***************************************************************************)
\* the stem ends with _(YYYY), YYYY four digits starting with 19 or 20
EndsWithUnderscoreYear(s) ==
    /\ Len(s) >= 7
    /\ SubSeq(s, Len(s) - 6, Len(s) - 5) = <<"_", "(">>
    /\ SubSeq(s, Len(s) - 4, Len(s) - 3) \in { <<"1", "9">>, <<"2", "0">> }
    /\ IsDigit(s[Len(s) - 2])
    /\ IsDigit(s[Len(s) - 1])
    /\ s[Len(s)] = ")"

\* the stem ends with a parenthesized group
EndsWithParenGroup(s) ==
    /\ Len(s) >= 2
    /\ s[Len(s)] = ")"
    /\ \E i \in 1..(Len(s) - 1) : s[i] = "("

\* "1" stands between two underscores
HasInnerCounter(s) ==
    \E i \in 1..(Len(s) - 2) : s[i] = "_" /\ s[i+1] = "1" /\ s[i+2] = "_"

\* "1" is the first token of the stem
HasLeadingCounter(s) == Len(s) >= 2 /\ s[1] = "1" /\ s[2] = "_"

\* "1" is the last underscore-separated segment of the stem
HasTrailingCounter(s) ==
    Len(s) >= 2 /\ s[Len(s) - 1] = "_" /\ s[Len(s)] = "1"

\* some underscore-separated segment of the stem is exactly "1"
HasCounterSegment(s) ==
    \/ s = <<"1">>
    \/ HasInnerCounter(s)
    \/ HasLeadingCounter(s)
    \/ HasTrailingCounter(s)

\* no run of two underscores, no underscore at either end
UnderscoreNormalForm(s) ==
    /\ \A i \in 1..(Len(s) - 1) : ~(s[i] = "_" /\ s[i+1] = "_")
    /\ s # <<>> => (s[1] # "_" /\ s[Len(s)] # "_")

\* the name has no extension: no "." strictly inside it starts a suffix
NoExtension(n) ==
    \A i \in 2..(Len(n) - 1) : n[i] = "." => \E j \in (i+1)..Len(n) : n[j] = "."

\* an all-digit token of fewer than four digits other than "1"
ShortNumber(tok) ==
    /\ tok # <<>>
    /\ Len(tok) < 4
    /\ \A i \in 1..Len(tok) : IsDigit(tok[i])
    /\ tok # <<"1">>

\* the two characters are the same letter up to case, or the same character
SameCharIgnoringCase(c, d) ==
    c = d \/ \E i \in DOMAIN UPPER : {c, d} = {UPPER[i], LOWER[i]}

EqualIgnoringCase(a, b) ==
    Len(a) = Len(b) /\ \A i \in 1..Len(a) : SameCharIgnoringCase(a[i], b[i])

\* a token the loop never puts into the title, whatever the year
NeverTitle(tok) ==
    tok = <<>> \/ tok = <<"1">> \/ HasBracket(tok)
    \/ \E w \in UNWANTED_WORDS : EqualIgnoringCase(tok, w)

\* the stem holds an embedded (YYYY)
HasEmbeddedYear(s) == \E i \in 1..Len(s) : ParenYearAt(s, i)

\* position of the token the loop takes as the year, 0 if it takes none
BareYearIndex(tokens, embedded) ==
    IF embedded \/ ~\E i \in 1..Len(tokens) : YEAR_RE_fullmatch(tokens[i])
    THEN 0
    ELSE CHOOSE i \in 1..Len(tokens) :
            /\ YEAR_RE_fullmatch(tokens[i])
            /\ \A j \in 1..(i-1) : ~YEAR_RE_fullmatch(tokens[j])

\* no token survives classification
NoTitleSurvives(tokens, embedded) ==
    \A i \in 1..Len(tokens) :
        NeverTitle(tokens[i]) \/ i = BareYearIndex(tokens, embedded)

(***************************************************************************)
(* Properties.                                                             *)
(***************************************************************************)
\* C1: idempotence: build_clean_name applied to the name it returned
\* returns that name unchanged.
C1_Idempotent == pc = "recleaned" => r2.result = r1.result

\* a name was really rewritten by the first call and stays put under the second
C1_Witness ==
    /\ pc = "recleaned"
    /\ r1.outcome = "renamed"
    /\ r1.result # original
    /\ r2.result = r1.result

\* C2: a stem that ends with _(YYYY) and carries no duplicate-counter
\* artifact (no "_1_" inside, no leading "1_") is returned unchanged, and
\* the pipeline (tokenization, filtering, reassembly) is not run on it.
C2_ReadyShortCircuit ==
    ( /\ pc = "cleaned"
      /\ EndsWithUnderscoreYear(stem(original))
      /\ ~HasInnerCounter(stem(original))
      /\ ~HasLeadingCounter(stem(original)) )
    => (r1.result = original /\ r1.outcome = "ready")

\* a ready stem the pipeline would have rewritten (it holds a double underscore)
C2_Witness ==
    /\ pc = "cleaned"
    /\ EndsWithUnderscoreYear(stem(original))
    /\ ~HasInnerCounter(stem(original))
    /\ ~HasLeadingCounter(stem(original))
    /\ Contains(stem(original), <<"_", "_">>)
    /\ r1.result = original

\* C3 as stated: a stem that ends with _(YYYY) but carries a stray "1" (a
\* "_1_" inside, or a leading "1_") is not short-circuited, and the name
\* returned has that "1" removed.
C3_CounterNotShortCircuited ==
    ( /\ pc = "cleaned"
      /\ EndsWithUnderscoreYear(stem(original))
      /\ (HasInnerCounter(stem(original)) \/ HasLeadingCounter(stem(original))) )
    => (r1.outcome # "ready" /\ ~HasCounterSegment(stem(r1.result)))

\* C3: a stem that ends with _(YYYY) and holds "_1_" is not short-circuited:
\* the pipeline runs on it, and the name it derives has no segment "1" (when
\* no title token survives the input is returned).  A stem whose only
\* stray "1" is a leading "1_" is short-circuited and returned unchanged.
C3_InnerCounterNotShortCircuited ==
    (pc = "cleaned" /\ EndsWithUnderscoreYear(stem(original))) =>
      /\ HasInnerCounter(stem(original)) =>
            /\ r1.outcome # "ready"
            /\ r1.outcome = "renamed" =>
                  (r1.result # original /\ ~HasCounterSegment(stem(r1.result)))
            /\ r1.outcome = "unsalvageable" => r1.result = original
      /\ (HasLeadingCounter(stem(original)) /\ ~HasInnerCounter(stem(original))) =>
            (r1.outcome = "ready" /\ r1.result = original)

\* a ready-shaped name with "_1_" before its year lost the "1"
C3_Witness ==
    /\ pc = "cleaned"
    /\ EndsWithUnderscoreYear(stem(original))
    /\ HasInnerCounter(stem(original))
    /\ r1.outcome = "renamed"
    /\ r1.result # original
    /\ ~HasCounterSegment(stem(r1.result))

\* C4 as stated: for every input the returned stem is in underscore normal form.
C4_NormalFormEveryInput ==
    pc = "cleaned" => UnderscoreNormalForm(stem(r1.result))

\* C4: whenever build_clean_name derives a name (the stem is not
\* short-circuited and a title token survives), the stem of the returned name
\* has no run of two underscores and no underscore at either end.
C4_NormalFormOfDerivedName ==
    (pc = "cleaned" /\ r1.outcome = "renamed")
    => UnderscoreNormalForm(stem(r1.result))

\* a stem with a double underscore and a boundary underscore was rewritten
C4_Witness ==
    /\ pc = "cleaned"
    /\ r1.outcome = "renamed"
    /\ Contains(stem(original), <<"_", "_">>)
    /\ stem(original)[1] = "_"
    /\ r1.result # original

\* C5 as stated: for every input, a returned stem that ends with a
\* parenthesized group ends with _(YYYY).
C5_YearFormatEveryInput ==
    (pc = "cleaned" /\ EndsWithParenGroup(stem(r1.result)))
    => EndsWithUnderscoreYear(stem(r1.result))

\* C5: unless no title token survives (the input is then returned as it
\* is), a returned stem that ends with a parenthesized group ends with
\* _(YYYY), YYYY four digits starting with 19 or 20.
C5_YearFormatUnlessUnsalvageable ==
    ( /\ pc = "cleaned"
      /\ r1.outcome # "unsalvageable"
      /\ EndsWithParenGroup(stem(r1.result)) )
    => EndsWithUnderscoreYear(stem(r1.result))

\* a name with an embedded year not preceded by "_" got its _(YYYY) suffix
C5_Witness ==
    /\ pc = "cleaned"
    /\ r1.outcome = "renamed"
    /\ HasEmbeddedYear(stem(original))
    /\ ~Contains(stem(original), <<"_", "(">>)
    /\ EndsWithUnderscoreYear(stem(r1.result))

\* C6: whenever no title token survives classification, the input name is
\* returned exactly as given, also when a year was found.
C6_NonDestructive ==
    ( /\ pc = "cleaned"
      /\ r1.outcome # "ready"
      /\ NoTitleSurvives(r1.tokens, HasEmbeddedYear(stem(original))) )
    => r1.result = original

\* nothing but a year and junk: the year was found, the name was kept
C6_Witness ==
    /\ pc = "cleaned"
    /\ r1.outcome = "unsalvageable"
    /\ r1.year # None
    /\ Len(r1.tokens) >= 2
    /\ NoTitleSurvives(r1.tokens, HasEmbeddedYear(stem(original)))
    /\ r1.result = original

\* C7 as stated: the empty filename and a filename without extension are
\* returned unchanged.
C7_NoExtensionUnchanged ==
    (pc = "cleaned" /\ (original = <<>> \/ NoExtension(original)))
    => r1.result = original

\* C7: the empty filename is returned unchanged.  A filename without
\* extension is cleaned like any other, its whole name taken as the stem:
\* when a name is derived it is the new stem alone, without extension.
C7_EmptyUnchangedNoExtensionCleaned ==
    pc = "cleaned" =>
      /\ original = <<>> => (r1.result = <<>> /\ r1.outcome = "unsalvageable")
      /\ (NoExtension(original) /\ r1.outcome = "renamed")
            => (r1.result = r1.new_stem /\ NoExtension(r1.result))

\* a filename without extension was renamed
C7_Witness ==
    /\ pc = "cleaned"
    /\ NoExtension(original)
    /\ r1.outcome = "renamed"
    /\ r1.result # original

\* C8: is_unwanted(token) is true exactly when the token equals a
\* configured tag up to letter case.
C8_ExactMatchIgnoringCase ==
    pc = "tagged" =>
        (verdict <=> \E w \in UNWANTED_WORDS : EqualIgnoringCase(token, w))

\* a mixed-case spelling of the tag configured in upper case is unwanted
C8_Witness ==
    /\ pc = "tagged"
    /\ verdict
    /\ EqualIgnoringCase(token, <<"B","O","K","U","T","O","X">>)
    /\ token # <<"B","O","K","U","T","O","X">>
    /\ token # Lower(token)

\* C9: a token "1" never enters the title, and a name that was changed has
\* no underscore-separated segment "1" in its stem.
C9_CounterDropped ==
    pc = "cleaned" =>
      /\ \A i \in 1..Len(r1.title_parts) : r1.title_parts[i] # <<"1">>
      /\ r1.result # original => ~HasCounterSegment(stem(r1.result))

\* a name with a "1" token after its year was rewritten
C9_Witness ==
    /\ pc = "cleaned"
    /\ r1.result # original
    /\ r1.year # None
    /\ Len(r1.tokens) >= 1
    /\ r1.tokens[Len(r1.tokens)] = <<"1">>

\* C10: the short numbers (all digits, fewer than four, not "1") among the
\* tokens are all kept, in their order: in the title and in the returned stem.
C10_ShortNumbersKept ==
    (pc = "cleaned" /\ r1.outcome # "ready") =>
      /\ SelectSeq(r1.title_parts, ShortNumber) = SelectSeq(r1.tokens, ShortNumber)
      /\ SelectSeq(re_split(stem(r1.result)), ShortNumber)
            = SelectSeq(r1.tokens, ShortNumber)

\* the year was known before the loop, and a short number was kept
C10_Witness ==
    /\ pc = "cleaned"
    /\ r1.outcome = "renamed"
    /\ HasEmbeddedYear(stem(original))
    /\ \E i \in 1..Len(r1.tokens) : ShortNumber(r1.tokens[i])
    /\ \E i \in 1..Len(r1.title_parts) : ShortNumber(r1.title_parts[i])


(***************************************************************************)
(* Vocabulary of the properties on years and brackets.                     *)
(***************************************************************************)
\* the four digits of the leftmost embedded (YYYY) of the stem
FirstEmbeddedYear(s) ==
    LET i == CHOOSE k \in 1..Len(s) :
                 ParenYearAt(s, k) /\ \A j \in 1..(k-1) : ~ParenYearAt(s, j)
    IN  SubSeq(s, i + 1, i + 4)

\* the stem ends with _(y) and holds no other parenthesis
YearSuffixOnce(s, y) ==
    /\ Len(s) >= 7
    /\ SubSeq(s, Len(s) - 6, Len(s)) = <<"_", "(">> \o y \o <<")">>
    /\ Cardinality({ i \in 1..Len(s) : s[i] = "(" }) = 1
    /\ Cardinality({ i \in 1..Len(s) : s[i] = ")" }) = 1

\* the tokens other than tokens[k] that classification lets into the title
TitleWithout(tokens, k) ==
    LET kept == SelectSeq([i \in 1..Len(tokens) |-> i],
                          LAMBDA i : i # k /\ ~NeverTitle(tokens[i]))
    IN  [j \in 1..Len(kept) |-> tokens[kept[j]]]

\* one of the six characters [ ] { } ( )
BracketChar(c) == c \in {"[", "]", "{", "}", "(", ")"}

\* the only brackets of the stem are those of a final _(YYYY)
BracketsOnlyInYearSuffix(s) ==
    \A i \in 1..Len(s) :
        BracketChar(s[i]) =>
            EndsWithUnderscoreYear(s) /\ i \in {Len(s) - 5, Len(s)}

\* C11 as stated, for every stem that is not short-circuited: the leftmost
\* embedded (YYYY) is the year and the output ends with it as _(YYYY),
\* holding no other parenthesis.
C11_EmbeddedYearEveryInput ==
    (pc = "cleaned" /\ r1.outcome # "ready" /\ HasEmbeddedYear(stem(original)))
        => /\ r1.year = FirstEmbeddedYear(stem(original))
           /\ YearSuffixOnce(stem(r1.result), FirstEmbeddedYear(stem(original)))

\* C11: embedded year: in a stem that is not short-circuited the leftmost
\* embedded (YYYY) is the year, whatever bare year token stands before it;
\* when a title token survives, the output ends with it as _(YYYY) and
\* holds no other parenthesis.
C11_EmbeddedYearWhenTitleSurvives ==
    (pc = "cleaned" /\ r1.outcome # "ready" /\ HasEmbeddedYear(stem(original)))
        => /\ r1.year = FirstEmbeddedYear(stem(original))
           /\ r1.outcome = "renamed" =>
                YearSuffixOnce(stem(r1.result),
                               FirstEmbeddedYear(stem(original)))

\* a bare year token stands before the embedded year and stays in the title
C11_Witness ==
    /\ pc = "cleaned"
    /\ r1.outcome = "renamed"
    /\ HasEmbeddedYear(stem(original))
    /\ YEAR_RE_fullmatch(SubSeq(original, 1, 4))
    /\ \E i \in 1..Len(r1.title_parts) : YEAR_RE_fullmatch(r1.title_parts[i])
    /\ r1.year = <<"2", "0", "2", "0">>

\* C12 as stated, for every stem without embedded year that has a bare year
\* token: the leftmost one is the year, and the output is the other title
\* tokens followed by _(YYYY).
C12_BareYearEveryInput ==
    LET tokens == re_split(stem(original))
        k == BareYearIndex(tokens, FALSE)
    IN  (pc = "cleaned" /\ ~HasEmbeddedYear(stem(original)) /\ k # 0)
            => /\ r1.year = tokens[k]
               /\ stem(r1.result) =
                    JoinUnderscore(TitleWithout(tokens, k))
                        \o <<"_", "(">> \o tokens[k] \o <<")">>

\* C12: bare year: in a stem without embedded year the leftmost token that
\* is a year becomes the year; when a title token survives, the output is
\* the surviving tokens other than it, followed by _(YYYY).
C12_BareYearWhenTitleSurvives ==
    LET tokens == re_split(stem(original))
        k == BareYearIndex(tokens, FALSE)
    IN  (pc = "cleaned" /\ ~HasEmbeddedYear(stem(original)) /\ k # 0)
            => /\ r1.year = tokens[k]
               /\ TitleWithout(tokens, k) # <<>> =>
                    stem(r1.result) =
                        JoinUnderscore(TitleWithout(tokens, k))
                            \o <<"_", "(">> \o tokens[k] \o <<")">>

\* two bare years: the left one is the suffix, the right one stays in the title
C12_Witness ==
    /\ pc = "cleaned"
    /\ r1.outcome = "renamed"
    /\ ~HasEmbeddedYear(stem(original))
    /\ r1.year = <<"1", "9", "9", "9">>
    /\ \E i \in 1..Len(r1.title_parts) :
            r1.title_parts[i] = <<"2", "0", "2", "1">>
    /\ original[1] = "A"

\* C13: no token holding one of [ ] { } ( ) is in the title, with or without
\* a year, and the only brackets in the output of a processed name are those
\* of its final _(YYYY).
C13_BracketTokensDropped ==
    (pc = "cleaned" /\ r1.outcome # "ready")
        => /\ \A i \in 1..Len(r1.title_parts) :
                \A j \in 1..Len(r1.title_parts[i]) :
                    ~BracketChar(r1.title_parts[i][j])
           /\ r1.outcome = "renamed" =>
                BracketsOnlyInYearSuffix(stem(r1.result))

\* a processed name without year that held a parenthesized group
C13_Witness ==
    /\ pc = "cleaned"
    /\ r1.outcome = "renamed"
    /\ r1.year = None
    /\ \E i \in 1..(Len(original) - 2) :
            original[i] = "(" /\ original[i+1] = "A" /\ original[i+2] = ")"


\* position of the final "." of the name, 0 if it has none
FinalDot(n) ==
    IF \E i \in 1..Len(n) : n[i] = "."
    THEN CHOOSE i \in 1..Len(n) :
            n[i] = "." /\ \A j \in (i+1)..Len(n) : n[j] # "."
    ELSE 0

\* the extension of the name: its text from the final "." on, when that "."
\* is neither the first nor the last character; empty otherwise
ExtensionOf(n) ==
    IF 1 < FinalDot(n) /\ FinalDot(n) < Len(n)
    THEN SubSeq(n, FinalDot(n), Len(n))
    ELSE <<>>

\* C14: a stem with neither embedded nor bare year of which a title token
\* survives: the output is the surviving tokens in their order joined by
\* single underscores, followed by the extension, with no parenthesis.
C14_NoYearPlainJoin ==
    LET tokens == re_split(stem(original)) IN
    (/\ pc = "cleaned"
     /\ ~HasEmbeddedYear(stem(original))
     /\ BareYearIndex(tokens, FALSE) = 0
     /\ TitleWithout(tokens, 0) # <<>>)
        => /\ r1.result =
                JoinUnderscore(TitleWithout(tokens, 0)) \o ExtensionOf(original)
           /\ \A i \in 1..Len(stem(r1.result)) :
                stem(r1.result)[i] \notin {"(", ")"}

\* a name without year, of which two tokens survive and one is dropped
C14_Witness ==
    /\ pc = "cleaned"
    /\ r1.outcome = "renamed"
    /\ r1.year = None
    /\ Len(r1.title_parts) = 2
    /\ \E i \in 1..Len(r1.tokens) : r1.tokens[i] = <<"y", "t", "s">>

\* C15: the extension is a frame: the returned name ends with the extension
\* of the input, character for character, and a derived name is the new
\* stem followed by it.
C15_ExtensionFrame ==
    pc = "cleaned"
        => /\ ExtensionOf(r1.result) = ExtensionOf(original)
           /\ r1.outcome = "renamed" =>
                r1.result = r1.new_stem \o ExtensionOf(original)

\* a renamed file whose extension holds an upper-case letter
C15_Witness ==
    /\ pc = "cleaned"
    /\ r1.outcome = "renamed"
    /\ r1.result # original
    /\ ExtensionOf(original) = <<".", "A">>


(***************************************************************************)
(* rename.py: move_files_to_folder                                         *)
(*                                                                         *)
(* A file on disk is a record [dir, name, id]: the folder it stands in,    *)
(* its name there, and its identity, which is the path it had at first.    *)
(***************************************************************************)
\* the destination folder, and the folders the sources are found in
DST == "dst"
SOURCE_DIRS == {"a", "b", "c"}

\* the prefix of line 104
DUP_PREFIX == <<"[", "D", "U", "P", "]", " ">>

\* f"[DUP] {file_path.name}"
DupName(name) == DUP_PREFIX \o name

\* the files at dir/name: one file or none
FileAt(fsys, dir, name) == { f \in fsys : f.dir = dir /\ f.name = name }

\* a plausible slip: the existence test never true
TargetExists_Never(fsys, name) == FALSE

\* line 103: target.exists(), target = destination / file_path.name
TargetExists(fsys, name) == FileAt(fsys, DST, name) # {}

\* a plausible slip: a second existence test, on the prefixed name
Landing_SecondCheck(fsys, name) ==
    IF TargetExists(fsys, name)
    THEN (IF TargetExists(fsys, DupName(name))
          THEN DupName(DupName(name)) ELSE DupName(name))
    ELSE name

\* lines 103-108: the name in the destination the source is moved to
Landing(fsys, name) ==
    IF TargetExists(fsys, name) THEN DupName(name) ELSE name

\* a plausible slip: a source that stands in the destination is left alone
ShutilMove_SkipInPlace(fsys, src, name) ==
    IF src.dir = DST THEN fsys
    ELSE LET moved == FileAt(fsys, src.dir, src.name) IN
         (fsys \ (moved \cup FileAt(fsys, DST, name)))
            \cup { [dir |-> DST, name |-> name, id |-> f.id] : f \in moved }

\* shutil.move(src, destination / name): the file leaves its place and
\* replaces the file that stands at destination / name, if any
ShutilMove(fsys, src, name) ==
    LET moved == FileAt(fsys, src.dir, src.name) IN
    (fsys \ (moved \cup FileAt(fsys, DST, name)))
        \cup { [dir |-> DST, name |-> name, id |-> f.id] : f \in moved }

(***************************************************************************)
(* Specification of move_files_to_folder: some files stand in the source   *)
(* folders and in the destination, and at most MaxSources of them are      *)
(* handed over as the sources, in any order.                               *)
(***************************************************************************)
MaxSources == 3

MOVIE == <<"A", ".", "m", "k", "v">>
MOVE_NAMES == { MOVIE, DupName(MOVIE) }
MOVE_PATHS ==
    { [dir |-> d, name |-> n] : d \in SOURCE_DIRS \cup {DST}, n \in MOVE_NAMES }

\* the file that stands at path p before anything moved
FileOf(p) == [dir |-> p.dir, name |-> p.name, id |-> <<p.dir, p.name>>]

RECURSIVE DistinctSeqs(_, _)
\* the sequences of at most k different elements of S
DistinctSeqs(S, k) ==
    IF k = 0 THEN { <<>> }
    ELSE LET prev == DistinctSeqs(S, k - 1) IN
         prev \cup { Append(pr[1], pr[2]) :
                        pr \in { qx \in prev \X S :
                                    \A j \in 1..Len(qx[1]) : qx[1][j] # qx[2] } }

InitMove ==
    /\ \E present \in SUBSET MOVE_PATHS :
          /\ fs = { FileOf(p) : p \in present }
          /\ files \in DistinctSeqs(present, MaxSources)
    /\ idx = 1
    /\ pc = "move"
    /\ movers = <<>>
    /\ atomic = FALSE
    /\ NoNorm
    /\ NoFolder
    /\ NoOther

\* lines 101-108: one pass of the loop body
MoveNext ==
    /\ pc = "move"
    /\ idx <= Len(files)
    /\ fs' = ShutilMove(fs, files[idx], Landing(fs, files[idx].name))
    /\ idx' = idx + 1
    /\ UNCHANGED <<pc, files, movers, atomic, normVars, folderVars>>
    /\ UNCHANGED otherVars

\* line 101: the sources are exhausted, the function returns
MoveDone ==
    /\ pc = "move"
    /\ idx > Len(files)
    /\ pc' = "moved"
    /\ UNCHANGED <<moveVars, normVars, folderVars>>
    /\ UNCHANGED otherVars

NextMove == MoveNext \/ MoveDone

SpecMove == InitMove /\ [][NextMove]_vars

(***************************************************************************)
(* Properties of move_files_to_folder.                                     *)
(***************************************************************************)
\* the name does not start with the duplicate prefix
PlainName(name) ==
    ~(Len(name) >= Len(DUP_PREFIX)
      /\ SubSeq(name, 1, Len(DUP_PREFIX)) = DUP_PREFIX)

\* the identity of the k-th source
SourceId(k) == <<files[k].dir, files[k].name>>

\* the file the pass about to run moves
MovedFile == CHOOSE f \in fs : f.dir = files[idx].dir /\ f.name = files[idx].name

\* the destination holds a file under the name of the source about to move
NameTaken == \E f \in fs : f.dir = DST /\ f.name = files[idx].name

C16_Step ==
    (pc = "move" /\ idx' = idx + 1) =>
        LET name == files[idx].name
            onto == IF NameTaken THEN DUP_PREFIX \o name ELSE name
        IN  /\ [dir |-> DST, name |-> onto, id |-> MovedFile.id] \in fs'
            /\ \A f \in fs :
                 (f.dir = DST /\ PlainName(f.name) /\ f # MovedFile)
                    => f \in fs'
            /\ \A k \in 1..(idx - 1) :
                 LET first == [dir |-> DST, name |-> name, id |-> SourceId(k)]
                 IN  (files[k].name = name /\ first \in fs)
                        => /\ first \in fs'
                           /\ [dir |-> DST, name |-> DUP_PREFIX \o name,
                               id |-> MovedFile.id] \in fs'

\* C16: every pass of the loop moves its source to its own name when that
\* name is free in the destination and to "[DUP] " + name when it is taken;
\* a file under a plain name in the destination is not replaced, and when an
\* earlier source of the same name holds the plain name it keeps it and the
\* later one gets the prefixed name.
C16_PlainNamesKept == [][C16_Step]_vars

\* two sources of one name were moved: the first holds the plain name, the
\* second the prefixed one
C16_Witness ==
    /\ pc = "move"
    /\ idx = 3
    /\ files[1].name = MOVIE
    /\ files[2].name = MOVIE
    /\ [dir |-> DST, name |-> MOVIE, id |-> SourceId(1)] \in fs
    /\ [dir |-> DST, name |-> DupName(MOVIE), id |-> SourceId(2)] \in fs

C17_Step ==
    (pc = "move" /\ idx' = idx + 1) =>
        LET name == files[idx].name
            earlier == { g \in fs : g.dir = DST /\ g.name = DUP_PREFIX \o name }
        IN  /\ (NameTaken /\ earlier # {}) =>
                 /\ [dir |-> DST, name |-> DUP_PREFIX \o name,
                     id |-> MovedFile.id] \in fs'
                 /\ \A g \in earlier : \A f \in fs' : f.id # g.id
            /\ \A f \in fs \cup fs' :
                 (f.dir = DST /\ f.name \notin {name, DUP_PREFIX \o name})
                    => f \in fs \cap fs'

\* C17: when the plain name is taken and the prefixed name stands in the
\* destination too, the pass moves its source onto the prefixed name and
\* the file that stood there is gone from the disk; a source takes no place
\* in the destination but its plain name and its prefixed name, every file
\* under another name there stays as it is.
C17_EarlierDuplicateReplaced == [][C17_Step]_vars

\* three sources of one name were moved: the second one is gone
C17_Witness ==
    /\ pc = "move"
    /\ idx = 4
    /\ \A k \in 1..3 : files[k].name = MOVIE
    /\ [dir |-> DST, name |-> MOVIE, id |-> SourceId(1)] \in fs
    /\ [dir |-> DST, name |-> DupName(MOVIE), id |-> SourceId(3)] \in fs
    /\ \A f \in fs : f.id # SourceId(2)


(***************************************************************************)
(* Specification of two movers at one destination.  Each mover runs the    *)
(* loop body of move_files_to_folder on one source.  When `atomic` is      *)
(* FALSE the test of line 103 and the move of lines 104-108 are two steps  *)
(* and the steps of the two movers interleave; when it is TRUE they are    *)
(* one step.                                                               *)
(***************************************************************************)
MOVERS == {1, 2}

InitMovers ==
    /\ \E present \in SUBSET MOVE_PATHS :
          /\ fs = { FileOf(p) : p \in present }
          /\ \E p1 \in present : \E p2 \in present \ {p1} :
                movers = [m \in MOVERS |->
                            [src |-> IF m = 1 THEN p1 ELSE p2,
                             at |-> "check", free |-> FALSE]]
    /\ atomic \in BOOLEAN
    /\ pc = "race"
    /\ files = <<>>
    /\ idx = 0
    /\ NoNorm
    /\ NoFolder
    /\ NoOther

\* line 103 alone: the mover looks whether its target exists
Check(m) ==
    /\ pc = "race"
    /\ ~atomic
    /\ movers[m].at = "check"
    /\ movers' = [movers EXCEPT
                    ![m].free = ~TargetExists(fs, movers[m].src.name),
                    ![m].at = "move"]
    /\ UNCHANGED <<pc, fs, files, idx, atomic, normVars, folderVars>>
    /\ UNCHANGED otherVars

\* lines 104-108 alone: the mover moves as the test it made earlier told it
Move(m) ==
    /\ pc = "race"
    /\ ~atomic
    /\ movers[m].at = "move"
    /\ fs' = ShutilMove(fs, movers[m].src,
                        IF movers[m].free THEN movers[m].src.name
                        ELSE DupName(movers[m].src.name))
    /\ movers' = [movers EXCEPT ![m].at = "done"]
    /\ UNCHANGED <<pc, files, idx, atomic, normVars, folderVars>>
    /\ UNCHANGED otherVars

\* lines 103-108 as one step
CheckAndMove(m) ==
    /\ pc = "race"
    /\ atomic
    /\ movers[m].at = "check"
    /\ fs' = ShutilMove(fs, movers[m].src, Landing(fs, movers[m].src.name))
    /\ movers' = [movers EXCEPT
                    ![m].free = ~TargetExists(fs, movers[m].src.name),
                    ![m].at = "done"]
    /\ UNCHANGED <<pc, files, idx, atomic, normVars, folderVars>>
    /\ UNCHANGED otherVars

NextMovers == \E m \in MOVERS : Check(m) \/ Move(m) \/ CheckAndMove(m)

SpecMovers == InitMovers /\ [][NextMovers]_vars

\* both movers are done, both found their plain name free, and the file of
\* one of them is gone from the disk
Raced ==
    /\ pc = "race"
    /\ \A m \in MOVERS : movers[m].at = "done" /\ movers[m].free
    /\ \E m \in MOVERS :
          \A f \in fs : f.id # <<movers[m].src.dir, movers[m].src.name>>

\* C18: a state in which both movers saw the plain name free and one file
\* replaced the other is reached only when check and move are two steps;
\* with check and move as one step there is no such state.
C18_RaceOnlyWhenNotAtomic == Raced => ~atomic

\* check and move interleaved: both movers moved to the plain name, one
\* file is left in the destination
C18_Witness ==
    /\ Raced
    /\ ~atomic
    /\ movers[1].src.name = movers[2].src.name
    /\ Cardinality({ f \in fs : f.dir = DST }) = 1


(***************************************************************************)
(* rename.py: clean_movie_names                                            *)
(*                                                                         *)
(* A file of the folder is a record [name, id]: its name now and its       *)
(* identity, which is the name it had at first.                            *)
(***************************************************************************)
\* constants.py, line 11
VIDEO_EXTS ==
    { <<".", "m", "p", "4">>, <<".", "m", "k", "v">>, <<".", "a", "v", "i">> }

\* line 117: file_path.suffix.lower() in VIDEO_EXTS
IsVideo(name) == Lower(suffix(name)) \in VIDEO_EXTS

\* the names the files of a folder are drawn from
FOLDER_NAMES == {
    <<"A", ".", "2", "0", "2", "0", ".", "m", "k", "v">>,
    <<"A", "_", "(", "2", "0", "2", "0", ")", ".", "m", "k", "v">>,
    DUP_PREFIX \o <<"A", ".", "2", "0", "2", "0", ".", "m", "k", "v">>,
    <<"y", "t", "s", ".", "M", "K", "V">>,
    <<"A", ".", "2", "0", "2", "0", ".", "t", "x", "t">>,
    <<"1", "1", "2", ".", "m", "k", "v">> }

\* line 119: build_clean_name(file_path) for every name a folder can hold in
\* the first run or in the second, worked out once
CLEANED ==
    [ n \in FOLDER_NAMES \cup { build_clean_name(m) : m \in FOLDER_NAMES }
        |-> build_clean_name_locals(n) ]

\* lines 117-122 and 76-78: what the loop body does with the entry `name`
Decide(name) ==
    IF ~IsVideo(name) THEN "skip"
    ELSE LET b == CLEANED[name] IN
         IF b.result # name THEN "rename"
         ELSE IF b.outcome = "unsalvageable" THEN "warn"
         ELSE "same"

\* a plausible slip: no rename when a file stands at new_path
PathRename_KeepExisting(dir, name, new) ==
    IF \E f \in dir : f.name = new THEN dir
    ELSE { IF f.name = name THEN [name |-> new, id |-> f.id] ELSE f : f \in dir }

\* line 122: file_path.rename(new_path); os.rename replaces a file that
\* stands at new_path
PathRename(dir, name, new) ==
    LET moved == { f \in dir : f.name = name } IN
    (dir \ (moved \cup { f \in dir : f.name = new }))
        \cup { [name |-> new, id |-> f.id] : f \in moved }

\* a plausible slip: the loop left at the first unsalvageable name
NextPos_StopOnWarning(decision, at, len) ==
    IF decision = "warn" THEN len + 1 ELSE at + 1

\* line 116: whatever was decided, the loop goes on with the next entry
NextPos(decision, at, len) == at + 1

(***************************************************************************)
(* Specification of clean_movie_names: a folder of at most MaxFiles files  *)
(* is listed in some order and cleaned, and then listed and cleaned once   *)
(* more.                                                                   *)
(***************************************************************************)
MaxFiles == 3

InitFolder ==
    /\ \E names \in SUBSET FOLDER_NAMES :
          /\ Cardinality(names) <= MaxFiles
          /\ folder = { [name |-> n, id |-> n] : n \in names }
    /\ snapshot = <<>>
    /\ pos = 0
    /\ run = 1
    /\ log = <<>>
    /\ pc = "list"
    /\ NoNorm
    /\ NoMove
    /\ NoOther

\* line 116: list(folder.iterdir()), in the order the system yields
ListFolder ==
    /\ pc = "list"
    /\ LET names == { f.name : f \in folder } IN
       snapshot' \in { q \in DistinctSeqs(names, Cardinality(names)) :
                        Len(q) = Cardinality(names) }
    /\ pos' = 1
    /\ pc' = "loop"
    /\ UNCHANGED <<folder, run, log, normVars, moveVars>>
    /\ UNCHANGED otherVars

\* lines 117-122: one pass of the loop body
CleanNext ==
    /\ pc = "loop"
    /\ pos <= Len(snapshot)
    /\ LET name == snapshot[pos]
           decision == Decide(name)
       IN  /\ folder' = IF decision = "rename"
                        THEN PathRename(folder, name, CLEANED[name].result)
                        ELSE folder
           /\ log' = Append(log, [run |-> run, name |-> name,
                                  decision |-> decision])
           /\ pos' = NextPos(decision, pos, Len(snapshot))
    /\ UNCHANGED <<pc, snapshot, run, normVars, moveVars>>
    /\ UNCHANGED otherVars

\* line 116: the snapshot is exhausted, the function returns; after the
\* first run the command is run once more
CleanReturn ==
    /\ pc = "loop"
    /\ pos > Len(snapshot)
    /\ IF run = 1
       THEN pc' = "list" /\ run' = run + 1
       ELSE pc' = "done" /\ run' = run
    /\ UNCHANGED <<folder, snapshot, pos, log, normVars, moveVars>>
    /\ UNCHANGED otherVars

NextFolder == ListFolder \/ CleanNext \/ CleanReturn

SpecFolder == InitFolder /\ [][NextFolder]_vars

\* the loop is not left half-way: a step that can be taken is taken
SpecFolderFair == SpecFolder /\ WF_vars(NextFolder)


(***************************************************************************)
(* Properties of clean_movie_names.                                        *)
(***************************************************************************)
\* what was decided in run r, in the order it was decided
RunLog(r) == SelectSeq(log, LAMBDA e : e.run = r)

\* the name ends with .mp4, .mkv or .avi in any letter case
HasVideoExtension(n) ==
    /\ Len(n) > 4
    /\ \E e \in { <<".", "m", "p", "4">>, <<".", "m", "k", "v">>,
                  <<".", "a", "v", "i">> } :
          EqualIgnoringCase(SubSeq(n, Len(n) - 3, Len(n)), e)

\* the loop of the current run has come to its end
LoopEnded == pc = "loop" /\ pos > Len(snapshot)

\* every entry of the snapshot was decided once, in order: a video file as
\* rename, no change or warning, any other file as skipped; a name that was
\* warned about still stands in the folder
AllDecided ==
    LET entries == RunLog(run) IN
    /\ Len(entries) = Len(snapshot)
    /\ \A i \in 1..Len(snapshot) :
          /\ entries[i].name = snapshot[i]
          /\ IF HasVideoExtension(snapshot[i])
             THEN entries[i].decision \in {"rename", "same", "warn"}
             ELSE entries[i].decision = "skip"
          /\ entries[i].decision = "warn" =>
                \E f \in folder :
                    f.name = snapshot[i] /\ (run = 1 => f.id = snapshot[i])

\* C19: clean_movie_names comes to its end, and when its loop has ended
\* every video file of the snapshot was decided exactly once (rename, no
\* change, or warning for an unsalvageable name, which is left as it is),
\* the entries after an unsalvageable name included.
C19_EveryVideoDecidedOnce == <>(pc = "done") /\ [](LoopEnded => AllDecided)

\* a run in which a file was renamed after an unsalvageable name was met
C19_Witness ==
    /\ LoopEnded
    /\ run = 1
    /\ Len(log) = 3
    /\ log[1].decision = "warn"
    /\ log[2].decision = "skip"
    /\ log[3].decision = "rename"

C20_Step ==
    run = 2 =>
        /\ folder' = folder
        /\ \A i \in 1..Len(log') : log'[i].run = 2 => log'[i].decision # "rename"

\* C20: once clean_movie_names has run on a folder, whatever names it held,
\* a second run renames nothing: no step of it changes the folder or
\* decides for a rename.
C20_SecondRunRenamesNothing == [][C20_Step]_vars

\* the second run has ended on a folder in which the first run renamed two
\* files
C20_Witness ==
    /\ pc = "done"
    /\ Cardinality({ i \in 1..Len(log) :
                        log[i].run = 1 /\ log[i].decision = "rename" }) = 2
    /\ Len(RunLog(2)) >= 2


(***************************************************************************)
(* Properties of the token loop and of the final pass.                     *)
(***************************************************************************)
\* the year the loop starts with: the leftmost embedded year, if any
YearBeforeLoop(s) ==
    IF HasEmbeddedYear(s) THEN FirstEmbeddedYear(s) ELSE None

\* C23: only the first year counts: in a stem that is not short-circuited
\* and that holds a year-like token after the point where the year is known,
\* the year is the first one found, every later year-like token is in the
\* title, and the output ends with one _(YYYY), which holds the first year.
C23_LaterYearsKept ==
    LET s == stem(original)
        k == BareYearIndex(r1.tokens, HasEmbeddedYear(s))
        first == IF k = 0 THEN YearBeforeLoop(s) ELSE r1.tokens[k]
    IN  (/\ pc = "cleaned"
         /\ r1.outcome # "ready"
         /\ first # None
         /\ \E i \in (k + 1)..Len(r1.tokens) : YEAR_RE_fullmatch(r1.tokens[i]))
            => /\ r1.year = first
               /\ r1.title_parts = TitleWithout(r1.tokens, k)
               /\ \A i \in (k + 1)..Len(r1.tokens) :
                     YEAR_RE_fullmatch(r1.tokens[i]) =>
                        \E j \in 1..Len(r1.title_parts) :
                            r1.title_parts[j] = r1.tokens[i]
               /\ YearSuffixOnce(stem(r1.result), first)

\* an embedded year, and after it a bare year that stays in the title
C23_Witness ==
    /\ pc = "cleaned"
    /\ original = <<"A", "(", "2", "0", "2", "0", ")", "_", "2", "0", "2", "1">>
    /\ r1.result = <<"A", "_", "2", "0", "2", "1", "_",
                     "(", "2", "0", "2", "0", ")">>

\* the classification in the order (a) year, (b) "1", (c) unwanted,
\* (d) bracket, (e) short number, (f) keep; first match wins
OrderedBranch(tok, year) ==
    IF year = None /\ YEAR_RE_fullmatch(tok) THEN "year"
    ELSE IF tok = <<"1">> THEN "drop"
    ELSE IF \E w \in UNWANTED_WORDS : EqualIgnoringCase(tok, w) THEN "drop"
    ELSE IF \E i \in 1..Len(tok) : BracketChar(tok[i]) THEN "drop"
    ELSE IF ShortNumber(tok) /\ year = None THEN "keep"
    ELSE "keep"

RECURSIVE OrderedLoop(_, _, _)
\* the non-empty tokens from tokens[i] on, classified in that order
OrderedLoop(tokens, i, acc) ==
    IF i > Len(tokens) THEN acc
    ELSE LET tok == tokens[i]
             b == OrderedBranch(tok, acc.year)
         IN  OrderedLoop(tokens, i + 1,
                IF tok = <<>> THEN acc
                ELSE IF b = "year" THEN [acc EXCEPT !.year = tok]
                ELSE IF b = "keep"
                     THEN [acc EXCEPT !.title_parts = Append(@, tok)]
                     ELSE acc)

\* C24: classification order: for every token sequence the loop yields the
\* year and the title tokens that the order (a) year, (b) "1", (c) unwanted,
\* (d) bracket, (e) short number, (f) keep yields.
C24_SameAsSpecOrder ==
    (pc = "cleaned" /\ r1.outcome # "ready")
        => LET ordered == OrderedLoop(r1.tokens, 1,
                            [year |-> YearBeforeLoop(stem(original)),
                             title_parts |-> <<>>])
           IN  /\ r1.year = ordered.year
               /\ r1.title_parts = ordered.title_parts

\* a name whose tokens take three different branches: "1", a short number
\* and a year
C24_Witness ==
    /\ pc = "cleaned"
    /\ r1.outcome = "renamed"
    /\ r1.year = <<"1", "9", "9", "9">>
    /\ r1.title_parts = << <<"2">> >>
    /\ \E i \in 1..Len(r1.tokens) : r1.tokens[i] = <<"1">>

\* C30: the final duplicate-counter pass is redundant: for every name the
\* pass is applied to, the stem before it equals the stem after it.
C30_CounterPassRedundant ==
    (pc = "cleaned" /\ r1.outcome = "renamed") => r1.new_stem = r1.pre_stem

\* a name with a "1" token and a token holding "(", both dropped by the loop
C30_Witness ==
    /\ pc = "cleaned"
    /\ r1.outcome = "renamed"
    /\ r1.year = None
    /\ \E i \in 1..Len(r1.tokens) : r1.tokens[i] = <<"1">>
    /\ \E i \in 1..Len(r1.tokens) : r1.tokens[i] = <<"(">>
    /\ r1.new_stem = r1.pre_stem


(***************************************************************************)
(* Properties of the bulk operations on colliding names.                   *)
(***************************************************************************)
C25_Step ==
    (pc = "loop" /\ pos' = pos + 1) =>
        LET name == snapshot[pos]
            clean == CLEANED[name].result
        IN  /\ ~HasVideoExtension(name) => folder' = folder
            /\ folder' # folder =>
                 /\ HasVideoExtension(name)
                 /\ clean # name
                 /\ \E f \in folder :
                       f.name = name /\ [name |-> clean, id |-> f.id] \in folder'
            /\ \A f \in folder : f.name # name => f \in folder'

\* C25: clean_movie_names touches only eligible files: a pass on an entry
\* without video extension changes nothing, a pass changes the folder only
\* by renaming an eligible entry whose clean name differs from its name, and
\* every other entry of the folder is the file it was, under the name it had.
C25_OnlyEligibleRenamed == [][C25_Step]_vars

\* the name build_clean_name gives the entry
CleanNameOf(name) == CLEANED[name].result

\* snapshot entries i and j, i before j, are video files that clean to one
\* name, which neither of them bears
CleanToOneName(i, j) ==
    /\ i < j
    /\ HasVideoExtension(snapshot[i])
    /\ HasVideoExtension(snapshot[j])
    /\ CleanNameOf(snapshot[i]) = CleanNameOf(snapshot[j])
    /\ CleanNameOf(snapshot[i]) \notin {snapshot[i], snapshot[j]}

\* C27: no existence check before the rename: when two video files of the
\* folder clean to one name, at the end of the first run both were renamed,
\* the name is held by the one renamed later, the one renamed earlier is
\* gone, and the folder has fewer files than were listed.
C27_LaterRenameReplaces ==
    (LoopEnded /\ run = 1) =>
        \A i \in 1..Len(snapshot) : \A j \in 1..Len(snapshot) :
            CleanToOneName(i, j) =>
                /\ log[i].decision = "rename"
                /\ log[j].decision = "rename"
                /\ [name |-> CleanNameOf(snapshot[j]), id |-> snapshot[j]]
                        \in folder
                /\ \A f \in folder : f.id # snapshot[i]
                /\ Cardinality(folder) < Len(snapshot)

\* 'A.2020.mkv' and '[DUP] A.2020.mkv' were both renamed to 'A_(2020).mkv':
\* one file is left
C27_Witness ==
    /\ LoopEnded
    /\ run = 1
    /\ Len(snapshot) = 2
    /\ CleanToOneName(1, 2)
    /\ snapshot[2] = DUP_PREFIX \o snapshot[1]
    /\ Cardinality(folder) = 1

C28_Step ==
    (pc = "move" /\ idx' = idx + 1 /\ files[idx].dir = DST) =>
        /\ [dir |-> DST, name |-> DUP_PREFIX \o files[idx].name,
            id |-> MovedFile.id] \in fs'
        /\ \A f \in fs' : ~(f.dir = DST /\ f.name = files[idx].name)

\* C28: a source that stands in the destination finds its own name taken:
\* the pass renames it in place to "[DUP] " + name, whether or not another
\* file of that name exists.
C28_InPlaceSourcePrefixed == [][C28_Step]_vars

\* the only file on disk stood in the destination and now bears the prefix
C28_Witness ==
    /\ pc = "move"
    /\ idx = 2
    /\ files = << [dir |-> DST, name |-> MOVIE] >>
    /\ fs = { [dir |-> DST, name |-> DupName(MOVIE), id |-> <<DST, MOVIE>>] }

(***************************************************************************)
(* Series renaming: extract_season_episode and build_series_name.          *)
(***************************************************************************)
DIGIT_CHARS == <<"0","1","2","3","4","5","6","7","8","9">>

\* the value of one decimal digit
DigitVal(c) == (CHOOSE i \in DOMAIN DIGIT_CHARS : DIGIT_CHARS[i] = c) - 1

\* int(ds) for a non-empty run of decimal digits
RECURSIVE ToInt(_)
ToInt(ds) ==
    IF ds = <<>> THEN 0
    ELSE ToInt(Slice(ds, 1, Len(ds) - 1)) * 10 + DigitVal(ds[Len(ds)])

\* str(n) for n >= 0
RECURSIVE IntToStr(_)
IntToStr(n) ==
    IF n < 10 THEN << DIGIT_CHARS[n + 1] >>
    ELSE IntToStr(n \div 10) \o << DIGIT_CHARS[(n % 10) + 1] >>

\* f"{n:02d}"
Format02d(n) ==
    LET d == IntToStr(n) IN IF Len(d) < 2 THEN <<"0">> \o d ELSE d

\* the index of the last character of the longest run of digits that starts
\* at index i (i - 1 when s has no digit at i): the greedy \d+
RECURSIVE DigitRunEnd(_, _)
DigitRunEnd(s, i) ==
    IF i <= Len(s) /\ IsDigit(s[i]) THEN DigitRunEnd(s, i + 1) ELSE i - 1

\* EPISODE_PATTERN, S(\d+)E(\d+)(?:-E(\d+))? ignoring case, matched at index
\* i: None, or the three groups (group 3 is None when the range is absent)
EpisodeMatchAt(s, i) ==
    LET a == DigitRunEnd(s, i + 1)
        b == DigitRunEnd(s, a + 2)
        c == DigitRunEnd(s, b + 3)
    IN  IF /\ LowerChar(s[i]) = "s"
           /\ a >= i + 1
           /\ a + 1 <= Len(s)
           /\ LowerChar(s[a + 1]) = "e"
           /\ b >= a + 2
        THEN [ g1 |-> Slice(s, i + 1, a),
               g2 |-> Slice(s, a + 2, b),
               g3 |-> IF /\ b + 2 <= Len(s)
                         /\ s[b + 1] = "-"
                         /\ LowerChar(s[b + 2]) = "e"
                         /\ c >= b + 3
                      THEN Slice(s, b + 3, c) ELSE None ]
        ELSE None

\* EPISODE_PATTERN.search(s): the match at the leftmost index that has one
EPISODE_PATTERN_search(s) ==
    LET at == { i \in 1..Len(s) : EpisodeMatchAt(s, i) # None } IN
    IF at = {} THEN None
    ELSE EpisodeMatchAt(s, CHOOSE i \in at : \A j \in at : i <= j)

\* extract_season_episode(filename, folder_season): None or the dict
extract_season_episode(filename, folder_season) ==
    LET match == EPISODE_PATTERN_search(filename) IN
    IF match = None THEN None
    ELSE [ season      |-> IF match.g1 # <<>> THEN ToInt(match.g1)
                           ELSE folder_season,
           episode     |-> ToInt(match.g2),
           end_episode |-> IF match.g3 # None THEN ToInt(match.g3) ELSE NoSeason,
           is_range    |-> match.g3 # None ]

\* the characters \s matches, as far as the base names of the model use them
IsSpace(c) == c \in {" ", "\t"}

\* str.strip()
RECURSIVE strip(_)
strip(s) ==
    IF s = <<>> THEN s
    ELSE IF IsSpace(s[1]) THEN strip(Tail(s))
    ELSE IF IsSpace(s[Len(s)]) THEN strip(Slice(s, 1, Len(s) - 1))
    ELSE s

\* re.sub(r"\s+", "_", s)
RECURSIVE sub_whitespace(_)
sub_whitespace(s) ==
    IF s = <<>> THEN s
    ELSE IF IsSpace(s[1])
         THEN IF Len(s) > 1 /\ IsSpace(s[2]) THEN sub_whitespace(Tail(s))
              ELSE <<"_">> \o sub_whitespace(Tail(s))
    ELSE << s[1] >> \o sub_whitespace(Tail(s))

\* an integer the code tests for truth: 0 and None are false
Truthy(n) == n # NoSeason /\ n # 0

\* build_series_name(original, base_name, season): its locals and result
build_series_name_locals(name, base, season) ==
    LET ep_info    == extract_season_episode(stem(name), season)
        clean_base == sub_whitespace(strip(base))
        s_num      == IF Truthy(ep_info.season) THEN ep_info.season ELSE 1
        e_num      == ep_info.episode
        ep_part    == IF ep_info.is_range
                      THEN <<"S">> \o Format02d(s_num) \o <<"E">> \o Format02d(e_num)
                           \o <<"-", "E">> \o Format02d(ep_info.end_episode)
                      ELSE <<"S">> \o Format02d(s_num) \o <<"E">> \o Format02d(e_num)
    IN  IF ep_info = None
        THEN [ matched |-> FALSE, marker |-> None, result |-> name ]
        ELSE [ matched |-> TRUE,
               marker  |-> EPISODE_PATTERN_search(stem(name)),
               result  |-> clean_base \o <<"_">> \o ep_part \o suffix(name) ]

build_series_name(name, base, season) ==
    build_series_name_locals(name, base, season).result

(***************************************************************************)
(* Specification of the series namer: a filename, a series name and the    *)
(* season of the enclosing folder are drawn and build_series_name is       *)
(* applied to them.                                                        *)
(***************************************************************************)
SERIES_PIECES == {
    <<"S","0">>, <<"s","1">>, <<"E","0">>, <<"e","7">>, <<"-","E","3">>,
    <<"0">>, <<"A">>, <<".","m","k","v">> }

RECURSIVE SeriesNamesOf(_)
SeriesNamesOf(k) ==
    IF k = 0 THEN { <<>> }
    ELSE LET prev == SeriesNamesOf(k - 1) IN
         prev \cup { n \o p : n \in prev, p \in SERIES_PIECES }

BASE_NAMES == { <<"A"," ","\t","B">>, <<" ","A">> }

\* the season a file's folder gives it: None for a file of the root
FOLDER_SEASONS == { NoSeason, 2 }

InitSeries ==
    /\ original \in SeriesNamesOf(MaxPieces) \ { <<>> }
    /\ pc = "edit"
    /\ r1 = NoRun
    /\ r2 = NoRun
    /\ token = <<>>
    /\ verdict = FALSE
    /\ NoMove
    /\ NoFolder
    /\ variant = <<>>
    /\ NoStore
    /\ base_name \in BASE_NAMES
    /\ file_season \in FOLDER_SEASONS
    /\ ser = <<>>
    /\ tree = {}
    /\ dry_run = FALSE
    /\ todo = <<>>
    /\ printed = <<>>

BuildSeries ==
    /\ pc = "edit"
    /\ ser' = build_series_name_locals(original, base_name, file_season)
    /\ pc' = "named"
    /\ UNCHANGED <<base_name, file_season, tree, dry_run, todo, printed>>
    /\ UNCHANGED <<normVars, moveVars, folderVars, pairVars, storeVars>>

NextSeries == BuildSeries

SpecSeries == InitSeries /\ [][NextSeries]_vars

\* C21: whenever the stem holds an SxxEyy marker, build_series_name returns
\* the base name with each whitespace run replaced by "_", then "_S", the
\* season, "E", the episode, "-E" and the end episode for a range, and the
\* original extension, each number zero-padded to two digits and equal to
\* the number of the first marker, 0 included.
C21_SeriesNameFromMarker ==
    (pc = "named" /\ ser.matched) =>
        ser.result =
            sub_whitespace(base_name) \o <<"_", "S">>
            \o Format02d(ToInt(ser.marker.g1))
            \o <<"E">> \o Format02d(ToInt(ser.marker.g2))
            \o (IF ser.marker.g3 # None
                THEN <<"-", "E">> \o Format02d(ToInt(ser.marker.g3))
                ELSE <<>>)
            \o suffix(original)

(***************************************************************************)
(* Series renaming over a folder tree: is_season_folder and                *)
(* clean_series_names.                                                     *)
(***************************************************************************)
\* the first index of the longest run of digits that ends at index j
\* (j + 1 when s has no digit at j): the (\d+)$ of SEASON_FOLDER_PATTERN
RECURSIVE DigitRunStart(_, _)
DigitRunStart(s, j) ==
    IF j >= 1 /\ IsDigit(s[j]) THEN DigitRunStart(s, j - 1) ELSE j + 1

\* the first index of the longest run of [\s_] that ends at index j
RECURSIVE SpaceRunStart(_, _)
SpaceRunStart(s, j) ==
    IF j >= 1 /\ (IsSpace(s[j]) \/ s[j] = "_")
    THEN SpaceRunStart(s, j - 1) ELSE j + 1

\* SEASON_FOLDER_PATTERN.search(s), (?:season|s)[\s_]*(\d+)$ ignoring case:
\* group 1, or None.  The digits are the run that ends the name, the
\* [\s_]* is the whole run before them, and "s" or "season" stands before.
SEASON_FOLDER_PATTERN_search(s) ==
    LET d == DigitRunStart(s, Len(s))
        w == SpaceRunStart(s, d - 1)
    IN  IF d <= Len(s) /\ w >= 2 /\ LowerChar(s[w - 1]) = "s"
        THEN Slice(s, d, Len(s)) ELSE None

EXCLUDED_FOLDERS ==
    { <<"s","p","e","c","i","a","l","s">>, <<"e","x","t","r","a","s">>,
      <<"b","e","h","i","n","d"," ","t","h","e"," ","s","c","e","n","e","s">> }

\* is_season_folder(folder_name): the season number or None
is_season_folder(folder_name) ==
    IF Lower(folder_name) \in EXCLUDED_FOLDERS THEN NoSeason
    ELSE LET match == SEASON_FOLDER_PATTERN_search(folder_name) IN
         IF match # None THEN ToInt(match) ELSE NoSeason

\* lines 195, 201: suffix.lower() in VIDEO_EXTS or suffix.lower() == ".ogv"
IsSeriesVideo(name) ==
    IsVideo(name) \/ Lower(suffix(name)) = <<".", "o", "g", "v">>

\* the root folder, as the dir of a file that lies directly in it
ROOT == <<".">>

\* the folders that lie in root
SERIES_DIRS ==
    { <<"S","e","a","s","o","n"," ","1">>, <<"s","_","0","1">>,
      <<"S","p","e","c","i","a","l","s">> }

\* the names a file of the tree may have
SERIES_FILES ==
    { <<"s","1","e","7",".","m","k","v">>,
      <<"A","_","S","0","1","E","0","7",".","m","k","v">>,
      <<"S","0","E","0",".","o","g","v">>,
      <<"x",".","m","k","v">>,
      <<"s","1","e","7",".","t","x","t">> }

\* line 214, `if not dry_run`: whether the loop renames the file
Renames_Always(dry) == TRUE

Renames(dry) == ~dry

\* line 215, Path.rename inside one folder of the tree: the file takes the
\* new name, and a file that stood under that name is replaced
TreeRename(t, dir, name, new) ==
    LET moved == { f \in t : f.dir = dir /\ f.name = name } IN
    (t \ (moved \cup { f \in t : f.dir = dir /\ f.name = new }))
        \cup { [dir |-> dir, name |-> new, id |-> f.id] : f \in moved }

InitTree ==
    /\ \E cells \in SUBSET ((SERIES_DIRS \cup {ROOT}) \X SERIES_FILES) :
          /\ Cardinality(cells) <= MaxFiles
          /\ tree = { [dir |-> c[1], name |-> c[2], id |-> c] : c \in cells }
    /\ base_name \in BASE_NAMES
    /\ dry_run \in BOOLEAN
    /\ file_season = NoSeason
    /\ ser = <<>>
    /\ todo = <<>>
    /\ printed = <<>>
    /\ pc = "list"
    /\ NoNorm
    /\ NoMove
    /\ NoFolder
    /\ variant = <<>>
    /\ NoStore

\* lines 187-206: files_to_process.  The video files of root come first,
\* then those of each season folder; of the folders that give the same
\* season number the dict keeps one, the last that root.iterdir() yields;
\* the order inside a folder is the one the system yields.
ListSeries ==
    /\ pc = "list"
    /\ LET seasonDirs == { d \in SERIES_DIRS : is_season_folder(d) # NoSeason }
           seasons == { is_season_folder(d) : d \in seasonDirs }
       IN  \E kept \in [ seasons -> seasonDirs ] :
             /\ \A n \in seasons : is_season_folder(kept[n]) = n
             /\ LET entries ==
                      { [dir |-> f.dir, name |-> f.name, season |-> NoSeason] :
                          f \in { g \in tree : g.dir = ROOT
                                               /\ IsSeriesVideo(g.name) } }
                      \cup
                      { [dir |-> f.dir, name |-> f.name,
                         season |-> is_season_folder(f.dir)] :
                          f \in { g \in tree :
                                    /\ \E n \in seasons : kept[n] = g.dir
                                    /\ IsSeriesVideo(g.name) } }
                    count == Cardinality(entries)
                IN  /\ todo' \in
                         { q \in DistinctSeqs(entries, count) :
                             /\ Len(q) = count
                             /\ \A i, j \in 1..count :
                                  (i < j /\ q[j].dir = ROOT) => q[i].dir = ROOT
                             /\ \A i, j, k \in 1..count :
                                  (i < j /\ j < k /\ q[i].dir = q[k].dir)
                                      => q[j].dir = q[i].dir }
                    /\ pc' = IF count = 0 THEN "done" ELSE "loop"
    /\ UNCHANGED <<base_name, file_season, ser, tree, dry_run, printed>>
    /\ UNCHANGED <<normVars, moveVars, folderVars, pairVars, storeVars>>

\* lines 209-217: one pass of the loop over files_to_process
SeriesNext ==
    /\ pc = "loop"
    /\ todo # <<>>
    /\ LET entry == Head(todo)
           new == build_series_name(entry.name, base_name, entry.season)
       IN  IF new # entry.name
           THEN IF Renames(dry_run)
                THEN /\ tree' = TreeRename(tree, entry.dir, entry.name, new)
                     /\ printed' = printed
                ELSE /\ tree' = tree
                     /\ printed' = Append(printed,
                                          [from |-> entry.name, to |-> new])
           ELSE UNCHANGED <<tree, printed>>
    /\ todo' = Tail(todo)
    /\ UNCHANGED <<pc, base_name, file_season, ser, dry_run>>
    /\ UNCHANGED <<normVars, moveVars, folderVars, pairVars, storeVars>>

\* line 209: files_to_process is exhausted, the function returns
SeriesReturn ==
    /\ pc = "loop"
    /\ todo = <<>>
    /\ pc' = "done"
    /\ UNCHANGED <<seriesVars, normVars, moveVars, folderVars, pairVars,
                   storeVars>>

NextTree == ListSeries \/ SeriesNext \/ SeriesReturn

SpecTree == InitTree /\ [][NextTree]_vars

\* C22: in a dry run no step of clean_series_names changes the tree, so the
\* file names of root and of its season folders stay as they were; a file
\* whose series name differs from its name is printed, with both names,
\* and nothing else is printed.
C22_Step ==
    dry_run =>
        /\ tree' = tree
        /\ (pc = "loop" /\ todo # <<>>) =>
              LET name == Head(todo).name
                  new == build_series_name(name, base_name, Head(todo).season)
              IN  printed' = IF new # name
                             THEN Append(printed, [from |-> name, to |-> new])
                             ELSE printed

MaxSaves == 3

\* the characters of a JSON string literal that stand for the character c
JsonEscapeChar(c) ==
    IF c = "\"" THEN <<"\\", "\"">>
    ELSE IF c = "\\" THEN <<"\\", "\\">>
    ELSE IF c = "\t" THEN <<"\\", "t">>
    ELSE << c >>

\* json.dump of a str: the inside of the string literal
RECURSIVE JsonEscape(_)
JsonEscape(v) ==
    IF v = <<>> THEN <<>> ELSE JsonEscapeChar(v[1]) \o JsonEscape(Tail(v))

\* json.load of a string literal: the str it stands for
RECURSIVE JsonUnescape(_)
JsonUnescape(t) ==
    IF t = <<>> THEN <<>>
    ELSE IF t[1] = "\\"
         THEN << (IF t[2] = "t" THEN "\t" ELSE t[2]) >>
              \o JsonUnescape(Slice(t, 3, Len(t)))
    ELSE << t[1] >> \o JsonUnescape(Tail(t))

\* json.dump(store, f, indent=2): the members of the object written
json_dump(store) == [ k \in DOMAIN store |-> JsonEscape(store[k]) ]

\* json.load(f): the dict the members stand for
json_load(text) == [ k \in DOMAIN text |-> JsonUnescape(text[k]) ]

\* store.update(paths), with the keys of paths replacing all of store
dict_update_Replace(store, paths) == paths

\* store.update(paths)
dict_update(store, paths) ==
    [ k \in (DOMAIN store) \cup (DOMAIN paths) |->
        IF k \in DOMAIN paths THEN paths[k] ELSE store[k] ]

\* load_saved_path(prompt), given the store file
load_saved_path(file, prompt) ==
    IF ~file.exists THEN None
    ELSE LET paths == json_load(file.text) IN
         IF prompt \in DOMAIN paths THEN paths[prompt] ELSE None

\* save_paths(paths), given the store file: the file afterwards
save_paths(file, paths) ==
    LET store == IF file.exists THEN json_load(file.text)
                 ELSE [ k \in {} |-> <<>> ]
    IN  [ exists |-> TRUE, text |-> json_dump(dict_update(store, paths)) ]

\* the prompts move_cmd saves, and one that is never saved
SAVED_KEYS == { "last_src", "last_dst" }
PROMPTS == SAVED_KEYS \cup { "other" }

\* the paths saved: a POSIX path, a Windows path whose backslash precedes
\* a "t", and a name that holds a quote and a tab
SAVED_VALUES ==
    { <<"/", "a">>, <<"C", ":", "\\", "t">>, <<"\"", "\t">> }

\* the mappings handed to save_paths
MAPPINGS ==
    UNION { [ ks -> SAVED_VALUES ] : ks \in SUBSET SAVED_KEYS }

InitStore ==
    /\ paths_json = [exists |-> FALSE, text |-> <<>>]
    /\ saves = <<>>
    /\ pc = "store"
    /\ NoNorm
    /\ NoMove
    /\ NoFolder
    /\ variant = <<>>
    /\ NoSeries

SavePaths(paths) ==
    /\ pc = "store"
    /\ Len(saves) < MaxSaves
    /\ paths_json' = save_paths(paths_json, paths)
    /\ saves' = Append(saves, paths)
    /\ UNCHANGED <<pc, normVars, moveVars, folderVars, pairVars, seriesVars>>

NextStore == \E paths \in MAPPINGS : SavePaths(paths)

SpecStore == InitStore /\ [][NextStore]_vars

\* the calls of save_paths whose mapping contained the key k
SavesOf(k) == { i \in DOMAIN saves : k \in DOMAIN saves[i] }

\* the value the most recent such call gave for k
LastSaved(k) ==
    saves[CHOOSE i \in SavesOf(k) : \A j \in SavesOf(k) : j <= i][k]

\* C26: after any sequence of save_paths calls, load_saved_path(k) is the
\* value the most recent call whose mapping contained k gave for k, and
\* None when no call contained k or the store file does not exist; so a
\* save leaves the value of every key outside its mapping as it was.
C26_StoreMerges ==
    \A k \in PROMPTS :
        load_saved_path(paths_json, k) =
            IF SavesOf(k) = {} THEN None ELSE LastSaved(k)

\* three saves: the first gave last_src a Windows path, the later two did
\* not contain last_src and the last one contained last_dst
C26_Witness ==
    /\ Len(saves) = 3
    /\ SavesOf("last_src") = {1}
    /\ 3 \in SavesOf("last_dst")
    /\ saves[1]["last_src"] = <<"C", ":", "\\", "t">>
    /\ load_saved_path(paths_json, "last_src") = <<"C", ":", "\\", "t">>

(***************************************************************************)
(* Specification of the normalizer over pairs of names: a sequence of      *)
(* tokens is laid out twice, each time with delimiter runs of its own      *)
(* between the tokens and at the two ends of the stem, and                 *)
(* build_clean_name is applied to both names.                              *)
(***************************************************************************)
MaxTokens == 2

\* the pieces between the delimiters
DELIM_TOKENS ==
    { <<"A">>, <<"1">>, <<"2">>, <<"y","t","s">>,
      <<"(","2","0","2","0",")">>, <<"1","9","9","9">> }

\* the delimiter runs between two pieces
DELIM_RUNS == { <<"_">>, <<".", " ">>, <<"-">> }

\* the delimiter runs at the start and at the end of the stem
EDGE_RUNS == { <<>>, <<"_">> }

\* the pieces of toks with the runs of seps between them
RECURSIVE JoinWith(_, _)
JoinWith(toks, seps) ==
    IF Len(toks) = 1 THEN toks[1]
    ELSE toks[1] \o seps[1] \o JoinWith(Tail(toks), Tail(seps))

\* the names a sequence of pieces can be laid out as
LayoutsOf(toks) ==
    { lead \o JoinWith(toks, seps) \o trail \o <<".", "m", "k", "v">> :
        lead \in EDGE_RUNS, trail \in EDGE_RUNS,
        seps \in [ 1..(Len(toks) - 1) -> DELIM_RUNS ] }

InitDelims ==
    /\ \E n \in 1..MaxTokens :
          \E toks \in [ 1..n -> DELIM_TOKENS ] :
             /\ original \in LayoutsOf(toks)
             /\ variant \in LayoutsOf(toks)
    /\ pc = "edit"
    /\ r1 = NoRun
    /\ r2 = NoRun
    /\ token = <<>>
    /\ verdict = FALSE
    /\ NoMove
    /\ NoFolder
    /\ NoSeries
    /\ NoStore

CleanPair ==
    /\ pc = "edit"
    /\ r1' = build_clean_name_locals(original)
    /\ r2' = build_clean_name_locals(variant)
    /\ pc' = "paired"
    /\ UNCHANGED <<original, variant, token, verdict>>
    /\ UNCHANGED <<moveVars, folderVars, seriesVars, storeVars>>

NextDelims == CleanPair

SpecDelims == InitDelims /\ [][NextDelims]_vars

\* C29 as stated: two names that differ only in their delimiter runs and
\* are both not short-circuited as ready get the same output.
C29_DelimiterInvariance ==
    (pc = "paired" /\ r1.outcome # "ready" /\ r2.outcome # "ready")
        => r1.result = r2.result

\* C29, amended: two names that differ only in their delimiter runs, are
\* both not short-circuited as ready and keep at least one title token get
\* the same output.
C29_DelimiterInvarianceSalvageable ==
    (pc = "paired" /\ r1.outcome = "renamed" /\ r2.outcome = "renamed")
        => r1.result = r2.result

\* two layouts of the pieces A and 1999 that differ at the start of the
\* stem and in the run between the pieces
C29_Witness ==
    /\ pc = "paired"
    /\ original = <<"A", "-", "1","9","9","9", ".", "m", "k", "v">>
    /\ variant = <<"_", "A", ".", " ", "1","9","9","9", "_", ".", "m", "k", "v">>
    /\ r1.outcome = "renamed"
    /\ r2.outcome = "renamed"
    /\ r1.result = <<"A", "_", "(", "1","9","9","9", ")", ".", "m", "k", "v">>

====
